---- MODULE Spec2Model ----
(***************************************************************************)
(* Model of server.js: the in-memory room registry, the Room class and the *)
(* socket.io message handlers of the multi-user lottery server.            *)
(*                                                                         *)
(* One handler runs to completion per step (Node's event loop); what it    *)
(* emitted is written out (Flush) before the next event is dispatched.     *)
(* server.js catches no exception: a TypeError thrown by a handler ends    *)
(* the process (up = FALSE), after which nothing is handled.  A JS         *)
(* object whose key order matters (submissions) is a sequence of           *)
(* name/value pairs in insertion order.  frozenOrder holds the names of    *)
(* the participant objects it references: server.js only ever reads        *)
(* .name from its elements, and a participant's name never changes.        *)
(***************************************************************************)
EXTENDS Integers, Sequences, FiniteSets, TLC

\* ---------------------------------------------------------------- bounds
Names == {"A", "B"}           \* display names sent to joinRoom
RoomNames == {"R"}            \* room names sent to joinRoom
Conns == {"c1", "c2"}         \* socket ids
MaxTime == 1                  \* Date.now() ranges over 0..MaxTime
MaxNum == 5                   \* integer payloads of submitNumber: 0..MaxNum

Null == "null"                \* JS null where a string may stand
NullRec == [isNull |-> TRUE]  \* JS null where an object may stand

\* ------------------------------------------------------------- JS values
\* A payload or an accumulated total.  Numbers are counted in halves, so
\* that 1.5 is a value: [t |-> "num", v |-> <<3>>].  A string is its
\* sequence of characters: 0..9 a digit, 10 the decimal point, 11 a letter.
NumV(h) == [t |-> "num", v |-> <<h>>]
IntV(k) == NumV(2 * k)
StrV(cs) == [t |-> "str", v |-> cs]
Undefined == [t |-> "undef", v |-> <<>>]
NaN == [t |-> "nan", v |-> <<>>]
JsNull == [t |-> "null", v |-> <<>>]
JsTrue == [t |-> "bool", v |-> <<1>>]

Payloads ==
    {IntV(k) : k \in 0..MaxNum} \cup {NumV(3), Undefined, JsNull, StrV(<<2>>)}

RECURSIVE Digits(_)
Digits(k) == IF k < 10 THEN <<k>> ELSE Digits(k \div 10) \o <<k % 10>>

RECURSIVE DigitsValue(_)
DigitsValue(cs) ==
    IF cs = <<>> THEN 0
    ELSE 10 * DigitsValue(SubSeq(cs, 1, Len(cs) - 1)) + cs[Len(cs)]

IsDigits(cs) == cs # <<>> /\ \A i \in 1..Len(cs) : cs[i] \in 0..9

\* JsToString(value), as string concatenation applies it
JsToString(x) ==
    CASE x.t = "str" -> x.v
      [] x.t = "num" ->
            IF x.v[1] % 2 = 0 THEN Digits(x.v[1] \div 2)
            ELSE Digits(x.v[1] \div 2) \o <<10, 5>>
      [] OTHER -> <<11>>

\* JsToNumber(value): a number in halves, or NaN
JsToNumber(x) ==
    CASE x.t = "num" -> x
      [] x.t = "null" -> NumV(0)
      [] x.t = "str" ->
            IF IsDigits(x.v) THEN IntV(DigitsValue(x.v))
            ELSE IF x.v = <<>> THEN NumV(0)
            ELSE NaN
      [] OTHER -> NaN

\* x < k and x > k for an integer k: false when x converts to NaN
JsLess(x, k) == JsToNumber(x).t = "num" /\ JsToNumber(x).v[1] < 2 * k
JsGreater(x, k) == JsToNumber(x).t = "num" /\ JsToNumber(x).v[1] > 2 * k

\* total += value
JsAdd(total, x) ==
    IF total.t = "str" \/ x.t = "str" THEN StrV(JsToString(total) \o JsToString(x))
    ELSE IF JsToNumber(total).t = "nan" \/ JsToNumber(x).t = "nan" THEN NaN
    ELSE NumV(JsToNumber(total).v[1] + JsToNumber(x).v[1])

\* ------------------------------------------------------------------ Room
\* class Room, constructor
NewRoom(name) ==
    [name |-> name, participants |-> <<>>, phase |-> "lobby",
     submissions |-> <<>>, frozenOrder |-> <<>>,
     result |-> NullRec, winner |-> Null]

\* Array.prototype.find / findIndex on participants: the first match, 0 if none
IdxByName(ps, userName) ==
    IF \E i \in 1..Len(ps) : ps[i].name = userName
    THEN CHOOSE i \in 1..Len(ps) :
            ps[i].name = userName /\ \A j \in 1..(i - 1) : ps[j].name # userName
    ELSE 0

IdxBySocket(ps, socketId) ==
    IF \E i \in 1..Len(ps) : ps[i].socketId = socketId
    THEN CHOOSE i \in 1..Len(ps) :
            ps[i].socketId = socketId
            /\ \A j \in 1..(i - 1) : ps[j].socketId # socketId
    ELSE 0

IdxOfHost(ps) ==
    IF \E i \in 1..Len(ps) : ps[i].isHost
    THEN CHOOSE i \in 1..Len(ps) :
            ps[i].isHost /\ \A j \in 1..(i - 1) : ~ps[j].isHost
    ELSE 0

\* addParticipant without the look-up of an existing entry
AddParticipant_Appends(room, userName, socketId, t) ==
    [room EXCEPT !.participants =
        Append(@, [name |-> userName, socketId |-> socketId,
                   isHost |-> (Len(@) = 0), online |-> TRUE,
                   joinTime |-> t])]

\* addParticipant: the roster afterwards (t is Date.now())
AddParticipant(room, userName, socketId, t) ==
    LET ps == room.participants
        i == IdxByName(ps, userName)
    IN  IF i # 0
        THEN [room EXCEPT !.participants[i].socketId = socketId,
                          !.participants[i].online = TRUE]
        ELSE [room EXCEPT !.participants =
                Append(ps, [name |-> userName, socketId |-> socketId,
                            isHost |-> (Len(ps) = 0), online |-> TRUE,
                            joinTime |-> t])]

\* addParticipant's return value
IsNewUser(room, userName) == IdxByName(room.participants, userName) = 0

\* sort((a, b) => a.joinTime - b.joinTime) on the participants at the
\* indices idx: a stable sort (equal joinTimes keep their order)
RECURSIVE SortByJoinTime(_, _)
SortByJoinTime(ps, idx) ==
    IF idx = <<>> THEN <<>>
    ELSE LET last == idx[Len(idx)]
             rest == SortByJoinTime(ps, SubSeq(idx, 1, Len(idx) - 1))
             k == Cardinality({j \in 1..Len(rest) :
                        ps[rest[j]].joinTime <= ps[last].joinTime})
         IN  SubSeq(rest, 1, k) \o <<last>> \o SubSeq(rest, k + 1, Len(rest))

\* filter(p => p.online): the indices of the online participants, in order
RECURSIVE OnlineIdx(_, _)
OnlineIdx(ps, n) ==
    IF n = 0 THEN <<>>
    ELSE IF ps[n].online THEN Append(OnlineIdx(ps, n - 1), n)
    ELSE OnlineIdx(ps, n - 1)

\* a re-election that hands the host to the online participant that joined last
CheckAndTransferHost_Latest(ps) ==
    LET h == IdxOfHost(ps)
    IN  IF h = 0 \/ ~ps[h].online
        THEN LET cleared == [i \in 1..Len(ps) |-> [ps[i] EXCEPT !.isHost = FALSE]]
                 online == SortByJoinTime(ps, OnlineIdx(ps, Len(ps)))
                 all == SortByJoinTime(ps, [i \in 1..Len(ps) |-> i])
             IN  IF Len(online) > 0
                 THEN [cleared EXCEPT ![online[Len(online)]].isHost = TRUE]
                 ELSE IF Len(ps) > 0
                 THEN [i \in 1..Len(ps) |->
                         [cleared[all[i]] EXCEPT !.isHost = (i = 1)]]
                 ELSE cleared
        ELSE ps

\* a re-election that gives up when nobody is online
CheckAndTransferHost_OnlineOnly(ps) ==
    LET h == IdxOfHost(ps)
    IN  IF h = 0 \/ ~ps[h].online
        THEN LET cleared == [i \in 1..Len(ps) |-> [ps[i] EXCEPT !.isHost = FALSE]]
                 online == SortByJoinTime(ps, OnlineIdx(ps, Len(ps)))
             IN  IF Len(online) > 0
                 THEN [cleared EXCEPT ![online[1]].isHost = TRUE]
                 ELSE cleared
        ELSE ps

\* checkAndTransferHost on a roster
CheckAndTransferHost(ps) ==
    LET h == IdxOfHost(ps)
    IN  IF h = 0 \/ ~ps[h].online
        THEN LET cleared == [i \in 1..Len(ps) |-> [ps[i] EXCEPT !.isHost = FALSE]]
                 online == SortByJoinTime(ps, OnlineIdx(ps, Len(ps)))
                 all == SortByJoinTime(ps, [i \in 1..Len(ps) |-> i])
             IN  IF Len(online) > 0
                 THEN [cleared EXCEPT ![online[1]].isHost = TRUE]
                 ELSE IF Len(ps) > 0
                 THEN [i \in 1..Len(ps) |->
                         [cleared[all[i]] EXCEPT !.isHost = (i = 1)]]
                 ELSE cleared
        ELSE ps

\* removeParticipant that also takes the leaver out of the frozen roster
RemoveParticipant_Unfreezes(room, socketId) ==
    LET i == IdxBySocket(room.participants, socketId)
    IN  IF i # 0
        THEN [room EXCEPT
                !.participants =
                    CheckAndTransferHost([@ EXCEPT ![i].online = FALSE]),
                !.frozenOrder =
                    IF \E k \in 1..Len(@) : @[k] = room.participants[i].name
                    THEN LET k == CHOOSE k \in 1..Len(@) :
                                     @[k] = room.participants[i].name
                         IN  SubSeq(@, 1, k - 1) \o SubSeq(@, k + 1, Len(@))
                    ELSE @]
        ELSE room

\* removeParticipant
RemoveParticipant(room, socketId) ==
    LET i == IdxBySocket(room.participants, socketId)
    IN  IF i # 0
        THEN [room EXCEPT !.participants =
                CheckAndTransferHost([@ EXCEPT ![i].online = FALSE])]
        ELSE room

\* participants.splice(index, 1)
Splice(ps, i) == SubSeq(ps, 1, i - 1) \o SubSeq(ps, i + 1, Len(ps))

\* kickParticipant: the room afterwards
KickParticipant(room, userName) ==
    LET i == IdxByName(room.participants, userName)
    IN  IF i # 0
        THEN [room EXCEPT !.participants =
                CheckAndTransferHost(Splice(room.participants, i))]
        ELSE room

\* kickParticipant's return value: the kicked socket id, or null
KickedSocketId(room, userName) ==
    LET i == IdxByName(room.participants, userName)
    IN  IF i # 0 THEN room.participants[i].socketId ELSE Null

\* [...this.participants], read by name
RosterNames(ps) == [i \in 1..Len(ps) |-> ps[i].name]

\* startRound that restarts a round from any phase
StartRoundOk_AnyPhase(room) == ~(Len(room.participants) < 2)

\* startRound that counts the online participants only
StartRoundOk_OnlineOnly(room) ==
    ~(room.phase # "lobby"
      \/ Cardinality({i \in 1..Len(room.participants) :
                        room.participants[i].online}) < 2)

\* startRound
StartRoundOk(room) == ~(room.phase # "lobby" \/ Len(room.participants) < 2)

StartRound(room) ==
    IF ~StartRoundOk(room) THEN room
    ELSE [room EXCEPT !.phase = "input", !.submissions = <<>>,
                      !.frozenOrder = RosterNames(room.participants),
                      !.result = NullRec, !.winner = Null]

\* submissions, a JS object: its keys in insertion order
IdxOfKey(subs, userName) ==
    IF \E i \in 1..Len(subs) : subs[i].name = userName
    THEN CHOOSE i \in 1..Len(subs) : subs[i].name = userName
    ELSE 0

HasKey(subs, userName) == IdxOfKey(subs, userName) # 0

\* this.submissions[userName] = value
SetKey(subs, userName, value) ==
    IF HasKey(subs, userName)
    THEN [subs EXCEPT ![IdxOfKey(subs, userName)].value = value]
    ELSE Append(subs, [name |-> userName, value |-> value])

InFrozenOrder(room, userName) ==
    \E i \in 1..Len(room.frozenOrder) : room.frozenOrder[i] = userName

\* submitNumber's return value
SubmitNumberOk(room, userName, number) ==
    /\ room.phase = "input"
    /\ InFrozenOrder(room, userName)
    /\ ~(JsLess(number, 1) \/ JsGreater(number, Len(room.frozenOrder)))

\* submitNumber: the room afterwards
SubmitNumber(room, userName, number) ==
    IF SubmitNumberOk(room, userName, number)
    THEN [room EXCEPT !.submissions = SetKey(@, userName, number)]
    ELSE room

\* canReveal
CanReveal(room) == Len(room.submissions) = Len(room.frozenOrder)

\* reveal, the forEach of a forced reveal: every member without a key gets 1
RECURSIVE FillMissing(_, _, _)
FillMissing(subs, frozen, i) ==
    IF i > Len(frozen) THEN subs
    ELSE FillMissing(IF HasKey(subs, frozen[i]) THEN subs
                     ELSE SetKey(subs, frozen[i], IntV(1)),
                     frozen, i + 1)

\* reveal: let total = 0; for (value of Object.values(submissions)) total += value
RECURSIVE SumValues(_, _)
SumValues(subs, n) ==
    IF n = 0 THEN IntV(0) ELSE JsAdd(SumValues(subs, n - 1), subs[n].value)

\* total % n, in halves, or NaN
Remainder(total, n) ==
    IF JsToNumber(total).t = "nan" THEN NaN
    ELSE NumV(JsToNumber(total).v[1] % (2 * n))

\* remainder === 0 ? n - 1 : remainder - 1, in halves, or NaN
WinnerIndex(remainder, n) ==
    IF remainder.t = "nan" THEN NaN
    ELSE IF remainder.v[1] = 0 THEN IntV(n - 1)
    ELSE NumV(remainder.v[1] - 2)

\* this.frozenOrder[winnerIndex] is an element (else .name throws TypeError)
IndexDefined(winnerIndex, n) ==
    /\ winnerIndex.t = "num"
    /\ winnerIndex.v[1] % 2 = 0
    /\ winnerIndex.v[1] \div 2 \in 0..(n - 1)

\* the submissions reveal computes on
RevealSubs(room, force) ==
    IF force THEN FillMissing(room.submissions, room.frozenOrder, 1)
    ELSE room.submissions

\* reveal gets past its two early returns
RevealComputes(room, force) ==
    room.phase = "input" /\ (force \/ CanReveal(room))

\* reveal throws at this.frozenOrder[winnerIndex].name
RevealThrows(room, force) ==
    /\ RevealComputes(room, force)
    /\ LET n == Len(room.frozenOrder)
           total == SumValues(RevealSubs(room, force), Len(RevealSubs(room, force)))
       IN  ~IndexDefined(WinnerIndex(Remainder(total, n), n), n)

\* reveal's return value true
RevealOk(room, force) == RevealComputes(room, force) /\ ~RevealThrows(room, force)

\* reveal: the room afterwards (after a throw: the forced defaults remain)
Reveal(room, force) ==
    IF ~RevealComputes(room, force) THEN room
    ELSE LET subs == RevealSubs(room, force)
             n == Len(room.frozenOrder)
             total == SumValues(subs, Len(subs))
             remainder == Remainder(total, n)
             winnerIndex == WinnerIndex(remainder, n)
         IN  IF ~IndexDefined(winnerIndex, n)
             THEN [room EXCEPT !.submissions = subs]
             ELSE [room EXCEPT
                     !.submissions = subs,
                     !.winner = room.frozenOrder[winnerIndex.v[1] \div 2 + 1],
                     !.result = [total |-> total, participantCount |-> n,
                                 index |-> remainder,
                                 actualWinnerIndex |-> winnerIndex,
                                 submissions |-> subs],
                     !.phase = "revealed"]

\* backToLobby that leaves result and winner in place
BackToLobby_KeepsResult(room) ==
    [room EXCEPT !.phase = "lobby", !.submissions = <<>>, !.frozenOrder = <<>>]

\* backToLobby
BackToLobby(room) ==
    [room EXCEPT !.phase = "lobby", !.submissions = <<>>, !.frozenOrder = <<>>,
                 !.result = NullRec, !.winner = Null]

\* getState that copies submissions as they are
GetState_Leak(room) ==
    [name |-> room.name,
     participants |->
        [i \in 1..Len(room.participants) |->
            [name |-> room.participants[i].name,
             isHost |-> room.participants[i].isHost,
             online |-> room.participants[i].online]],
     phase |-> room.phase,
     submissions |->
        IF room.phase = "input" THEN [keys |-> room.submissions] ELSE NullRec,
     result |-> room.result,
     winner |-> room.winner]

\* getState
GetState(room) ==
    [name |-> room.name,
     participants |->
        [i \in 1..Len(room.participants) |->
            [name |-> room.participants[i].name,
             isHost |-> room.participants[i].isHost,
             online |-> room.participants[i].online]],
     phase |-> room.phase,
     submissions |->
        IF room.phase = "input"
        THEN [keys |-> [i \in 1..Len(room.submissions) |->
                          [name |-> room.submissions[i].name, value |-> JsTrue]]]
        ELSE NullRec,
     result |-> room.result,
     winner |-> room.winner]

\* isEmpty
IsEmpty(room) ==
    Cardinality({i \in 1..Len(room.participants) : room.participants[i].online}) = 0

\* ----------------------------------------------------------------- state
VARIABLES
    rooms,      \* const rooms = {}: room name -> Room, for the names present
    sess,       \* per connection: currentRoom, currentUser
    open,       \* the connected sockets
    now,        \* Date.now()
    up,         \* the server process runs (no uncaught exception so far)
    emitted     \* what the running handler handed to socket.io, in order

vars == <<rooms, sess, open, now, up, emitted>>

NoSession == [room |-> Null, user |-> Null]

Init ==
    /\ rooms = [r \in {} |-> NewRoom(r)]
    /\ sess = [c \in Conns |-> NoSession]
    /\ open = {}
    /\ now = 0
    /\ up = TRUE
    /\ emitted = <<>>

\* ------------------------------------------------------------- emissions
ToSocket(c) == [kind |-> "socket", id |-> c, except |-> Null]
ToRoom(r) == [kind |-> "room", id |-> r, except |-> Null]
ToRoomExcept(r, c) == [kind |-> "room", id |-> r, except |-> c]

\* socket.emit('error', ...) and socket.emit('joinError', ...)
ErrorMsg(c, text) == [ev |-> "error", to |-> ToSocket(c), data |-> [msg |-> text]]
JoinErrorMsg(c, text) ==
    [ev |-> "joinError", to |-> ToSocket(c), data |-> [msg |-> text]]
\* io.to(room).emit('roomUpdate', room.getState())
RoomUpdate(to, room) == [ev |-> "roomUpdate", to |-> to, data |-> GetState(room)]

\* rooms[name] = room / delete rooms[name]
PutRoom(reg, name, room) ==
    [r \in DOMAIN reg \cup {name} |-> IF r = name THEN room ELSE reg[r]]
DeleteRoom(reg, name) == [r \in DOMAIN reg \ {name} |-> reg[r]]

\* a socket id no participant object holds (a new connection gets a new id)
Unreferenced(c) ==
    \A r \in DOMAIN rooms : IdxBySocket(rooms[r].participants, c) = 0

\* the event loop dispatches the next event to a connected socket once the
\* running handler has returned and its emissions are written out
Ready(c) == up /\ c \in open /\ emitted = <<>>

\* io.on('connection'): a new socket with its own currentRoom, currentUser
Connect(c) ==
    /\ up /\ emitted = <<>> /\ c \notin open /\ Unreferenced(c)
    /\ open' = open \cup {c}
    /\ sess' = [sess EXCEPT ![c] = NoSession]
    /\ emitted' = <<>>
    /\ UNCHANGED <<rooms, now, up>>

\* a join check that turns returning participants away as well
JoinRefused_AnyName(room, userName) ==
    room.phase # "lobby"

\* if (room.phase !== 'lobby') { ... if (!existing) { joinError; return } }
JoinRefused(room, userName) ==
    room.phase # "lobby" /\ IdxByName(room.participants, userName) = 0

\* socket.on('joinRoom')
OnJoinRoom(c, roomName, userName) ==
    /\ Ready(c)
    /\ IF roomName = "" \/ userName = ""
       THEN /\ emitted' = <<JoinErrorMsg(c, "empty")>>
            /\ UNCHANGED <<rooms, sess, open, now, up>>
       ELSE LET reg == IF roomName \in DOMAIN rooms THEN rooms
                       ELSE PutRoom(rooms, roomName, NewRoom(roomName))
                room == reg[roomName]
            IN  IF JoinRefused(room, userName)
                THEN /\ emitted' = <<JoinErrorMsg(c, "inProgress")>>
                     /\ rooms' = reg
                     /\ UNCHANGED <<sess, open, now, up>>
                ELSE \E t \in {now, now + 1} :
                     /\ t <= MaxTime
                     /\ IsNewUser(room, userName) \/ t = now
                     /\ LET after == AddParticipant(room, userName, c, t)
                            me == after.participants[IdxByName(after.participants, userName)]
                        IN  /\ rooms' = PutRoom(reg, roomName, after)
                            /\ emitted' =
                                 << [ev |-> "joinSuccess", to |-> ToSocket(c),
                                     data |-> [roomName |-> roomName,
                                               userName |-> userName,
                                               isHost |-> me.isHost,
                                               roomState |-> GetState(after)]],
                                    RoomUpdate(IF IsNewUser(room, userName)
                                               THEN ToRoomExcept(roomName, c)
                                               ELSE ToRoom(roomName), after) >>
                     /\ sess' = [sess EXCEPT ![c] = [room |-> roomName, user |-> userName]]
                     /\ now' = t
                     /\ UNCHANGED <<open, up>>

\* if (!currentRoom || !currentUser) return; if (!room) return;
HasRoom(c) ==
    sess[c].room # Null /\ sess[c].user # Null /\ sess[c].room \in DOMAIN rooms

\* the room of the caller's session
MyRoom(c) == rooms[sess[c].room]

\* the host check without its isHost half
IsHostCaller_AnyMember(c) ==
    IdxByName(MyRoom(c).participants, sess[c].user) # 0

\* participant && participant.isHost, for the caller's session name
IsHostCaller(c) ==
    LET i == IdxByName(MyRoom(c).participants, sess[c].user)
    IN  i # 0 /\ MyRoom(c).participants[i].isHost

\* a handler that returns at once, or only reports an error
Returns(msgs) ==
    /\ emitted' = msgs
    /\ UNCHANGED <<rooms, sess, open, now, up>>

\* socket.on('startRound')
OnStartRound(c) ==
    /\ Ready(c)
    /\ IF ~HasRoom(c) THEN Returns(<<>>)
       ELSE IF ~IsHostCaller(c) THEN Returns(<<ErrorMsg(c, "onlyHostStart")>>)
       ELSE IF StartRoundOk(MyRoom(c))
       THEN /\ rooms' = PutRoom(rooms, sess[c].room, StartRound(MyRoom(c)))
            /\ emitted' = <<RoomUpdate(ToRoom(sess[c].room), StartRound(MyRoom(c)))>>
            /\ UNCHANGED <<sess, open, now, up>>
       ELSE Returns(<<ErrorMsg(c, "cannotStart")>>)

\* socket.on('submitNumber')
OnSubmitNumber(c, number) ==
    /\ Ready(c)
    /\ IF ~HasRoom(c) THEN Returns(<<>>)
       ELSE IF SubmitNumberOk(MyRoom(c), sess[c].user, number)
       THEN LET after == SubmitNumber(MyRoom(c), sess[c].user, number)
            IN  /\ rooms' = PutRoom(rooms, sess[c].room, after)
                /\ emitted' = << [ev |-> "numberSubmitted", to |-> ToSocket(c),
                                  data |-> NullRec],
                                 RoomUpdate(ToRoom(sess[c].room), after) >>
                /\ UNCHANGED <<sess, open, now, up>>
       ELSE Returns(<<ErrorMsg(c, "submitFailed")>>)

\* socket.on('revealResult') and socket.on('forceReveal'), after the host check
RevealHandler(c, force, text) ==
    LET after == Reveal(MyRoom(c), force)
    IN  IF RevealThrows(MyRoom(c), force)
        THEN \* uncaught TypeError: the process ends
             /\ rooms' = PutRoom(rooms, sess[c].room, after)
             /\ up' = FALSE
             /\ emitted' = <<>>
             /\ UNCHANGED <<sess, open, now>>
        ELSE IF RevealOk(MyRoom(c), force)
        THEN /\ rooms' = PutRoom(rooms, sess[c].room, after)
             /\ emitted' = <<RoomUpdate(ToRoom(sess[c].room), after)>>
             /\ UNCHANGED <<sess, open, now, up>>
        ELSE Returns(<<ErrorMsg(c, text)>>)

\* socket.on('revealResult')
OnRevealResult(c) ==
    /\ Ready(c)
    /\ IF ~HasRoom(c) THEN Returns(<<>>)
       ELSE IF ~IsHostCaller(c) THEN Returns(<<ErrorMsg(c, "onlyHostReveal")>>)
       ELSE RevealHandler(c, FALSE, "notAllSubmitted")

\* socket.on('forceReveal')
OnForceReveal(c) ==
    /\ Ready(c)
    /\ IF ~HasRoom(c) THEN Returns(<<>>)
       ELSE IF ~IsHostCaller(c) THEN Returns(<<ErrorMsg(c, "onlyHostForce")>>)
       ELSE RevealHandler(c, TRUE, "cannotReveal")

\* socket.on('backToLobby')
OnBackToLobby(c) ==
    /\ Ready(c)
    /\ IF ~HasRoom(c) THEN Returns(<<>>)
       ELSE IF ~IsHostCaller(c) THEN Returns(<<ErrorMsg(c, "onlyHostLobby")>>)
       ELSE /\ rooms' = PutRoom(rooms, sess[c].room, BackToLobby(MyRoom(c)))
            /\ emitted' = <<RoomUpdate(ToRoom(sess[c].room), BackToLobby(MyRoom(c)))>>
            /\ UNCHANGED <<sess, open, now, up>>

\* a kick check that forgets the phase
KickRefused_Never(room) == FALSE

\* if (room.phase !== 'lobby') { error; return }
KickRefused(room) == room.phase # "lobby"

\* socket.on('kickUser')
OnKickUser(c, userName) ==
    /\ Ready(c)
    /\ IF ~HasRoom(c) THEN Returns(<<>>)
       ELSE IF ~IsHostCaller(c) THEN Returns(<<ErrorMsg(c, "onlyHostKick")>>)
       ELSE IF KickRefused(MyRoom(c)) THEN Returns(<<ErrorMsg(c, "kickOnlyInLobby")>>)
       ELSE LET after == KickParticipant(MyRoom(c), userName)
                kicked == KickedSocketId(MyRoom(c), userName)
            IN  /\ rooms' = PutRoom(rooms, sess[c].room, after)
                /\ emitted' =
                     IF kicked # Null
                     THEN << [ev |-> "kicked", to |-> ToSocket(kicked), data |-> NullRec],
                             RoomUpdate(ToRoom(sess[c].room), after) >>
                     ELSE <<>>
                /\ UNCHANGED <<sess, open, now, up>>

\* function handleDisconnect(): rooms, sess and emitted afterwards
HandleDisconnect(c) ==
    IF ~HasRoom(c)
    THEN /\ emitted' = <<>>
         /\ UNCHANGED <<rooms, sess>>
    ELSE LET after == RemoveParticipant(MyRoom(c), c)
         IN  /\ IF IsEmpty(after)
                THEN /\ rooms' = DeleteRoom(rooms, sess[c].room)
                     /\ emitted' = <<>>
                ELSE /\ rooms' = PutRoom(rooms, sess[c].room, after)
                     /\ emitted' = <<RoomUpdate(ToRoom(sess[c].room), after)>>
             /\ sess' = [sess EXCEPT ![c] = NoSession]

\* socket.on('leaveRoom')
OnLeaveRoom(c) ==
    /\ Ready(c)
    /\ HandleDisconnect(c)
    /\ UNCHANGED <<open, now, up>>

\* socket.on('disconnect'): the socket is gone afterwards
OnDisconnect(c) ==
    /\ Ready(c)
    /\ HandleDisconnect(c)
    /\ open' = open \ {c}
    /\ UNCHANGED <<now, up>>

\* socket.io writes out what the handler emitted
Flush ==
    /\ emitted # <<>>
    /\ emitted' = <<>>
    /\ UNCHANGED <<rooms, sess, open, now, up>>

Next ==
    \/ \E c \in Conns : Connect(c)
    \/ \E c \in Conns, r \in RoomNames \cup {""}, n \in Names \cup {""} :
          OnJoinRoom(c, r, n)
    \/ \E c \in Conns : OnStartRound(c)
    \/ \E c \in Conns, v \in Payloads : OnSubmitNumber(c, v)
    \/ \E c \in Conns : OnRevealResult(c)
    \/ \E c \in Conns : OnForceReveal(c)
    \/ \E c \in Conns : OnBackToLobby(c)
    \/ \E c \in Conns, n \in Names : OnKickUser(c, n)
    \/ \E c \in Conns : OnLeaveRoom(c)
    \/ \E c \in Conns : OnDisconnect(c)
    \/ Flush

Spec == Init /\ [][Next]_vars

\* ------------------------------------------------- rounds of up to 4 players
\* The round handlers on a room that n players, each on a connection of its
\* own, have just joined.
RoundNames == <<"A", "B", "C", "D">>
RoundConns == <<"c1", "c2", "c3", "c4">>

Joined(n) ==
    [NewRoom("R") EXCEPT !.participants =
        [i \in 1..n |-> [name |-> RoundNames[i], socketId |-> RoundConns[i],
                         isHost |-> (i = 1), online |-> TRUE, joinTime |-> 0]]]

InitRound ==
    \E n \in 1..Len(RoundNames) :
        /\ rooms = [r \in {"R"} |-> Joined(n)]
        /\ sess = [c \in {RoundConns[i] : i \in 1..Len(RoundConns)} |->
                     IF \E i \in 1..n : RoundConns[i] = c
                     THEN [room |-> "R",
                           user |-> RoundNames[CHOOSE i \in 1..n : RoundConns[i] = c]]
                     ELSE NoSession]
        /\ open = {RoundConns[i] : i \in 1..n}
        /\ now = 0
        /\ up = TRUE
        /\ emitted = <<>>

NextRound ==
    \/ \E i \in 1..Len(RoundConns) : OnStartRound(RoundConns[i])
    \/ \E i \in 1..Len(RoundConns), v \in Payloads : OnSubmitNumber(RoundConns[i], v)
    \/ \E i \in 1..Len(RoundConns) : OnRevealResult(RoundConns[i])
    \/ \E i \in 1..Len(RoundConns) : OnForceReveal(RoundConns[i])
    \/ \E i \in 1..Len(RoundConns) : OnBackToLobby(RoundConns[i])
    \/ Flush

SpecRound == InitRound /\ [][NextRound]_vars

\* ------------------------------------------------ a roster of three players
\* The roster handlers on a room that up to three players, each on a
\* connection of its own and under a name of its own, have joined one after
\* the other; the players that have not joined yet are connected.
LobbyNames == <<"A", "B", "C">>
LobbyConns == <<"c1", "c2", "c3">>

JoinedAt(joinTimes) ==
    [NewRoom("R") EXCEPT !.participants =
        [i \in 1..Len(joinTimes) |->
            [name |-> LobbyNames[i], socketId |-> LobbyConns[i],
             isHost |-> (i = 1), online |-> TRUE, joinTime |-> joinTimes[i]]]]

InitLobby ==
    \E n \in 1..Len(LobbyNames) :
    \E joinTimes \in [1..n -> 0..MaxTime] :
        /\ \A i \in 1..(n - 1) : joinTimes[i] <= joinTimes[i + 1]
        /\ rooms = [r \in {"R"} |-> JoinedAt(joinTimes)]
        /\ sess = [c \in {LobbyConns[i] : i \in 1..Len(LobbyConns)} |->
                     IF \E i \in 1..n : LobbyConns[i] = c
                     THEN [room |-> "R",
                           user |-> LobbyNames[CHOOSE i \in 1..n : LobbyConns[i] = c]]
                     ELSE NoSession]
        /\ open = {LobbyConns[i] : i \in 1..Len(LobbyConns)}
        /\ now = joinTimes[n]
        /\ up = TRUE
        /\ emitted = <<>>

NextLobby ==
    \/ \E i \in 1..Len(LobbyConns), r \in RoomNames \cup {""} :
          \E n \in {LobbyNames[i], ""} : OnJoinRoom(LobbyConns[i], r, n)
    \/ \E i \in 1..Len(LobbyConns) : OnStartRound(LobbyConns[i])
    \/ \E i \in 1..Len(LobbyConns) : OnForceReveal(LobbyConns[i])
    \/ \E i \in 1..Len(LobbyConns) : OnBackToLobby(LobbyConns[i])
    \/ \E i \in 1..Len(LobbyConns), k \in 1..Len(LobbyNames) :
          OnKickUser(LobbyConns[i], LobbyNames[k])
    \/ \E i \in 1..Len(LobbyConns) : OnLeaveRoom(LobbyConns[i])
    \/ \E i \in 1..Len(LobbyConns) : OnDisconnect(LobbyConns[i])
    \/ Flush

SpecLobby == InitLobby /\ [][NextLobby]_vars

\* ------------------------------------------------- after a kick
\* The handlers after the host A, on c1, has kicked B, who had joined on c2:
\* c2 sends every message but a joinRoom, c1 and a newcomer's connection c3
\* send any message.
KickedConn == "c2"
OtherConns == {"c1", "c3"}

InitKicked ==
    \E t \in 0..MaxTime :
        /\ rooms = [r \in {"R"} |->
                     KickParticipant(
                        AddParticipant(AddParticipant(NewRoom("R"), "A", "c1", 0),
                                       "B", KickedConn, t), "B")]
        /\ sess = [c \in OtherConns \cup {KickedConn} |->
                     IF c = "c1" THEN [room |-> "R", user |-> "A"]
                     ELSE IF c = KickedConn THEN [room |-> "R", user |-> "B"]
                     ELSE NoSession]
        /\ open = OtherConns \cup {KickedConn}
        /\ now = t
        /\ up = TRUE
        /\ emitted = <<>>

NextKicked ==
    \/ \E c \in OtherConns, r \in RoomNames, n \in Names : OnJoinRoom(c, r, n)
    \/ \E c \in OtherConns \cup {KickedConn} : OnStartRound(c)
    \/ \E c \in OtherConns \cup {KickedConn}, v \in {IntV(0), IntV(1)} :
          OnSubmitNumber(c, v)
    \/ \E c \in OtherConns \cup {KickedConn} : OnRevealResult(c)
    \/ \E c \in OtherConns \cup {KickedConn} : OnForceReveal(c)
    \/ \E c \in OtherConns \cup {KickedConn} : OnBackToLobby(c)
    \/ \E c \in OtherConns \cup {KickedConn}, n \in Names : OnKickUser(c, n)
    \/ \E c \in OtherConns \cup {KickedConn} : OnLeaveRoom(c)
    \/ \E c \in OtherConns \cup {KickedConn} : OnDisconnect(c)
    \/ Flush

SpecKicked == InitKicked /\ [][NextKicked]_vars

\* ================================================================ claims
Online(room) == {i \in 1..Len(room.participants) : room.participants[i].online}
Hosts(room) == {i \in 1..Len(room.participants) : room.participants[i].isHost}

\* the phase changes of the rooms that one step keeps in the registry
PhaseChanges ==
    {<<rooms[r].phase, rooms'[r].phase>> :
        r \in {x \in DOMAIN rooms \cap DOMAIN rooms' : rooms[x].phase # rooms'[x].phase}}

\* C1, as stated: every change of a room's phase is lobby->input,
\* input->revealed or revealed->lobby (in particular never input->lobby).
C1_OnlyCycle ==
    [][PhaseChanges \subseteq
        {<<"lobby", "input">>, <<"input", "revealed">>, <<"revealed", "lobby">>}]_vars

\* C1, amended: every change of a room's phase is lobby->input,
\* input->revealed, revealed->lobby, or input->lobby (the host's backToLobby
\* during input).
C1_CycleOrAbort ==
    [][PhaseChanges \subseteq
        {<<"lobby", "input">>, <<"input", "revealed">>, <<"revealed", "lobby">>,
         <<"input", "lobby">>}]_vars

\* C1 witness: a room has gone lobby -> input -> revealed and its update is out
C1_Witness ==
    \E r \in DOMAIN rooms :
        /\ rooms[r].phase = "revealed"
        /\ emitted = <<RoomUpdate(ToRoom(r), rooms[r])>>

\* C2: a room of the registry with an online participant has exactly one
\* host, and that host is online.
C2_OneOnlineHost ==
    \A r \in DOMAIN rooms :
        Online(rooms[r]) # {} =>
            /\ Cardinality(Hosts(rooms[r])) = 1
            /\ Hosts(rooms[r]) \subseteq Online(rooms[r])

\* C3: no room of the registry has zero online participants.
C3_NoEmptyRoom == \A r \in DOMAIN rooms : ~IsEmpty(rooms[r])

\* the arithmetic sum, in halves, of the recorded values read as numbers
RECURSIVE ArithSum(_, _)
ArithSum(subs, n) ==
    IF n = 0 THEN 0
    ELSE ArithSum(subs, n - 1)
         + (IF JsToNumber(subs[n].value).t = "num"
            THEN JsToNumber(subs[n].value).v[1] ELSE 0)

\* C4: after a successful reveal on a frozen roster of size n, total is the
\* sum of the recorded submissions, remainder is total mod n, the winner
\* index is n-1 for remainder 0 and remainder-1 otherwise, a valid index, and
\* winner is frozenOrder[winnerIndex].
C4_WinnerMapping ==
    \A r \in DOMAIN rooms :
        rooms[r].phase = "revealed" =>
            LET room == rooms[r]
                n == Len(room.frozenOrder)
                sum == ArithSum(room.submissions, Len(room.submissions))
                rem == sum % (2 * n)
                idx == IF rem = 0 THEN 2 * (n - 1) ELSE rem - 2
            IN  /\ room.result.total = NumV(sum)
                /\ room.result.participantCount = n
                /\ room.result.index = NumV(rem)
                /\ room.result.actualWinnerIndex = NumV(idx)
                /\ idx % 2 = 0 /\ idx \div 2 \in 0..(n - 1)
                /\ room.winner = room.frozenOrder[idx \div 2 + 1]

\* the session name of c is the name of the host of the room of c
SessionIsHost(c) ==
    \E i \in 1..Len(MyRoom(c).participants) :
        /\ MyRoom(c).participants[i].name = sess[c].user
        /\ MyRoom(c).participants[i].isHost

\* every member of frozenOrder has a recorded submission
AllSubmitted(room) ==
    \A i \in 1..Len(room.frozenOrder) :
        \E j \in 1..Len(room.submissions) :
            room.submissions[j].name = room.frozenOrder[i]

\* the handler of c answered with one error to c alone and changed nothing
RejectedTo(c) ==
    /\ rooms' = rooms /\ sess' = sess /\ open' = open /\ up' = up
    /\ Len(emitted') = 1
    /\ emitted'[1].ev = "error"
    /\ emitted'[1].to = ToSocket(c)

\* the handler of c revealed its room and broadcast the snapshot
Revealed(c) ==
    /\ sess[c].room \in DOMAIN rooms'
    /\ rooms'[sess[c].room].phase = "revealed"
    /\ up' = up
    /\ emitted' = <<RoomUpdate(ToRoom(sess[c].room), rooms'[sess[c].room])>>

\* the recorded values after a forced reveal: 1 for the members without one
DefaultedToOne(before, after) ==
    /\ AllSubmitted(after)
    /\ Len(after.submissions) = Len(after.frozenOrder)
    /\ \A j \in 1..Len(after.submissions) :
          LET name == after.submissions[j].name
          IN  IF HasKey(before.submissions, name)
              THEN after.submissions[j].value
                     = before.submissions[IdxOfKey(before.submissions, name)].value
              ELSE after.submissions[j].value = IntV(1)

\* C5: in input, reveal(false) succeeds iff every frozenOrder member has a
\* recorded submission and changes nothing when it fails; reveal(true)
\* always succeeds from input, after giving 1 to every member without a
\* submission; in any other phase both fail and change nothing.
C5_RevealContract ==
    [][\A c \in Conns :
        (Ready(c) /\ HasRoom(c) /\ SessionIsHost(c)) =>
            /\ OnRevealResult(c) =>
                 IF MyRoom(c).phase = "input" /\ AllSubmitted(MyRoom(c))
                 THEN Revealed(c) ELSE RejectedTo(c)
            /\ OnForceReveal(c) =>
                 IF MyRoom(c).phase = "input"
                 THEN Revealed(c) /\ DefaultedToOne(MyRoom(c), rooms'[sess[c].room])
                 ELSE RejectedTo(c)]_vars

\* a JS number that is an integer in lo..hi
IsIntegerIn(x, lo, hi) ==
    x.t = "num" /\ x.v[1] % 2 = 0 /\ (x.v[1] \div 2) \in lo..hi

\* C6: submitNumber records the number and returns true exactly when the
\* phase is input, the name is in frozenOrder and the number is an integer
\* in [1, |frozenOrder|]; otherwise it returns false and changes nothing; an
\* accepted resubmission replaces the previous value.
C6_SubmitContract ==
    [][\A c \in Conns, v \in Payloads :
        (Ready(c) /\ HasRoom(c) /\ OnSubmitNumber(c, v)) =>
            LET room == MyRoom(c)
                name == sess[c].user
            IN  IF /\ room.phase = "input"
                   /\ InFrozenOrder(room, name)
                   /\ IsIntegerIn(v, 1, Len(room.frozenOrder))
                THEN LET after == rooms'[sess[c].room]
                     IN  /\ HasKey(after.submissions, name)
                         /\ after.submissions[IdxOfKey(after.submissions, name)].value = v
                         /\ Cardinality({j \in 1..Len(after.submissions) :
                                after.submissions[j].name = name}) = 1
                         /\ emitted'[1].ev = "numberSubmitted"
                ELSE RejectedTo(c)]_vars

\* C7: startRound fails and changes nothing iff the phase is not lobby or
\* the roster, offline participants included, has fewer than 2 entries; on
\* success the phase is input, submissions is empty, result and winner are
\* null and frozenOrder is the roster, in roster order.
C7_StartRound ==
    [][\A c \in Conns :
        (Ready(c) /\ HasRoom(c) /\ SessionIsHost(c) /\ OnStartRound(c)) =>
            LET room == MyRoom(c)
            IN  IF room.phase # "lobby" \/ Len(room.participants) < 2
                THEN RejectedTo(c)
                ELSE LET after == rooms'[sess[c].room]
                     IN  /\ after.phase = "input"
                         /\ after.submissions = <<>>
                         /\ after.result = NullRec
                         /\ after.winner = Null
                         /\ after.participants = room.participants
                         /\ Len(after.frozenOrder) = Len(room.participants)
                         /\ \A i \in 1..Len(room.participants) :
                               after.frozenOrder[i] = room.participants[i].name
                         /\ emitted' = <<RoomUpdate(ToRoom(sess[c].room), after)>>]_vars

\* C7 witness: a round has started on a roster with an offline participant
C7_Witness ==
    \E r \in DOMAIN rooms :
        /\ rooms[r].phase = "input"
        /\ rooms[r].submissions = <<>>
        /\ rooms[r].frozenOrder = RosterNames(rooms[r].participants)
        /\ \E i \in 1..Len(rooms[r].participants) : ~rooms[r].participants[i].online
        /\ emitted = <<RoomUpdate(ToRoom(r), rooms[r])>>

\* the room with every recorded number replaced by 1
Blank(room) ==
    [room EXCEPT !.submissions =
        [j \in 1..Len(room.submissions) |->
            [name |-> room.submissions[j].name, value |-> IntV(1)]]]

\* the snapshots among the emitted messages
Snapshots ==
    {emitted[i].data : i \in {j \in 1..Len(emitted) : emitted[j].ev = "roomUpdate"}}
    \cup {emitted[i].data.roomState :
            i \in {j \in 1..Len(emitted) : emitted[j].ev = "joinSuccess"}}

\* C8: while the phase is input the snapshot does not depend on the
\* submitted numbers: it is the snapshot of the room with other numbers, it
\* maps each submitter to true, and its result and winner are null.
C8_NoLeak ==
    /\ \A r \in DOMAIN rooms :
          rooms[r].phase = "input" =>
              /\ GetState(rooms[r]) = GetState(Blank(rooms[r]))
              /\ GetState(rooms[r]).result = NullRec
              /\ GetState(rooms[r]).winner = Null
    /\ \A snap \in Snapshots :
          snap.phase = "input" =>
              /\ \A j \in 1..Len(snap.submissions.keys) :
                    snap.submissions.keys[j].value = JsTrue
              /\ snap.result = NullRec
              /\ snap.winner = Null

\* C8 witness: a snapshot goes out while two different numbers are recorded
C8_Witness ==
    \E r \in DOMAIN rooms :
        /\ rooms[r].phase = "input"
        /\ \E i, j \in 1..Len(rooms[r].submissions) :
              rooms[r].submissions[i].value # rooms[r].submissions[j].value
        /\ emitted # <<>>
        /\ emitted[Len(emitted)] = RoomUpdate(ToRoom(r), rooms[r])

\* C9: result and winner are both set in phase revealed and both null in
\* lobby and in input.
C9_ResultIffRevealed ==
    \A r \in DOMAIN rooms :
        IF rooms[r].phase = "revealed"
        THEN rooms[r].result # NullRec /\ rooms[r].winner # Null
        ELSE rooms[r].result = NullRec /\ rooms[r].winner = Null

\* C9 witness: a room is revealed and its winner is a frozenOrder member
C9_Witness ==
    \E r \in DOMAIN rooms :
        /\ rooms[r].phase = "revealed"
        /\ rooms[r].winner \in {rooms[r].frozenOrder[i] : i \in 1..Len(rooms[r].frozenOrder)}

\* C10: startRound, revealResult, forceReveal, backToLobby and kickUser from
\* a connection whose session name is not the host of its room answer with
\* one error to that connection and change neither the room nor the registry.
C10_HostOnly ==
    [][\A c \in Conns :
        (Ready(c) /\ HasRoom(c) /\ ~SessionIsHost(c)) =>
            /\ OnStartRound(c) => RejectedTo(c)
            /\ OnRevealResult(c) => RejectedTo(c)
            /\ OnForceReveal(c) => RejectedTo(c)
            /\ OnBackToLobby(c) => RejectedTo(c)
            /\ \A n \in Names : OnKickUser(c, n) => RejectedTo(c)]_vars

\* C10 witness: an online participant that is not the host was refused
C10_Witness ==
    /\ Len(emitted) = 1
    /\ emitted[1].ev = "error"
    /\ emitted[1].data.msg \in
         {"onlyHostStart", "onlyHostReveal", "onlyHostForce", "onlyHostLobby",
          "onlyHostKick"}
    /\ \E c \in open :
          /\ emitted[1].to = ToSocket(c)
          /\ HasRoom(c)
          /\ \E i \in 1..Len(MyRoom(c).participants) :
                /\ MyRoom(c).participants[i].name = sess[c].user
                /\ MyRoom(c).participants[i].online
                /\ ~MyRoom(c).participants[i].isHost

\* the rooms that one step keeps in the registry
Kept == DOMAIN rooms \cap DOMAIN rooms'

\* C11: while the phase is not lobby, frozenOrder is non-empty and is the
\* roster, in order, that the last successful startRound captured: a step
\* that enters a round freezes the roster of that moment, and no step that
\* stays out of lobby changes frozenOrder.
C11_FrozenRoster ==
    /\ [](\A r \in DOMAIN rooms :
            rooms[r].phase # "lobby" => rooms[r].frozenOrder # <<>>)
    /\ [][\A r \in Kept :
            /\ (rooms[r].phase = "lobby" /\ rooms'[r].phase # "lobby") =>
                  /\ Len(rooms'[r].frozenOrder) = Len(rooms[r].participants)
                  /\ \A i \in 1..Len(rooms[r].participants) :
                        rooms'[r].frozenOrder[i] = rooms[r].participants[i].name
            /\ (rooms[r].phase # "lobby" /\ rooms'[r].phase # "lobby") =>
                  rooms'[r].frozenOrder = rooms[r].frozenOrder]_vars

\* C11 witness: during a round a member is offline, the host has moved to
\* another member and a submission is recorded
C11_Witness ==
    \E r \in DOMAIN rooms :
        /\ rooms[r].phase = "input"
        /\ rooms[r].submissions # <<>>
        /\ Len(rooms[r].frozenOrder) = 2
        /\ ~rooms[r].participants[1].online
        /\ rooms[r].participants[2].isHost
        /\ rooms[r].frozenOrder = RosterNames(rooms[r].participants)

\* C12: every key of submissions is a frozenOrder member, every recorded
\* value is a number in [1, |frozenOrder|], and submissions is empty in lobby.
C12_SubmissionsValid ==
    \A r \in DOMAIN rooms :
        /\ \A j \in 1..Len(rooms[r].submissions) :
              /\ InFrozenOrder(rooms[r], rooms[r].submissions[j].name)
              /\ rooms[r].submissions[j].value.t = "num"
              /\ rooms[r].submissions[j].value.v[1] >= 2
              /\ rooms[r].submissions[j].value.v[1] <= 2 * Len(rooms[r].frozenOrder)
        /\ rooms[r].phase = "lobby" => rooms[r].submissions = <<>>

\* joinRoom answered with one joinError to the caller and nothing changed
JoinRejected(c) ==
    /\ rooms' = rooms /\ sess' = sess /\ open' = open /\ up' = up
    /\ Len(emitted') = 1
    /\ emitted'[1].ev = "joinError"
    /\ emitted'[1].to = ToSocket(c)

\* joinRoom accepted: the caller's session and the roster entry are bound
JoinAccepted(c, roomName, userName) ==
    /\ sess'[c] = [room |-> roomName, user |-> userName]
    /\ roomName \in DOMAIN rooms'
    /\ \E i \in 1..Len(rooms'[roomName].participants) :
          /\ rooms'[roomName].participants[i].name = userName
          /\ rooms'[roomName].participants[i].socketId = c
          /\ rooms'[roomName].participants[i].online
    /\ Len(emitted') = 2
    /\ emitted'[1].ev = "joinSuccess"
    /\ emitted'[1].to = ToSocket(c)

\* the room exists and userName is in its roster
InRoster(roomName, userName) ==
    /\ roomName \in DOMAIN rooms
    /\ \E i \in 1..Len(rooms[roomName].participants) :
          rooms[roomName].participants[i].name = userName

\* C13: joinRoom is rejected with a joinError to the caller and changes
\* neither the registry, nor a room, nor the caller's session when a name is
\* empty or when the room is out of lobby and the name is not in its roster;
\* a joinRoom under a roster name is accepted in every phase.
C13_JoinRejection ==
    [][\A i \in 1..Len(LobbyConns) : \A roomName \in RoomNames \cup {""} :
       \A userName \in {LobbyNames[i], ""} :
       LET c == LobbyConns[i] IN
          OnJoinRoom(c, roomName, userName) =>
             /\ (roomName = "" \/ userName = "") => JoinRejected(c)
             /\ ( /\ roomName \in DOMAIN rooms
                  /\ rooms[roomName].phase # "lobby"
                  /\ ~InRoster(roomName, userName) ) => JoinRejected(c)
             /\ (roomName # "" /\ InRoster(roomName, userName)) =>
                    JoinAccepted(c, roomName, userName)]_vars

\* C13 witness: a newcomer has just been turned away from a revealed room
C13_Witness ==
    /\ Len(emitted) = 1
    /\ emitted[1].ev = "joinError"
    /\ emitted[1].data.msg = "inProgress"
    /\ \E r \in DOMAIN rooms : rooms[r].phase = "revealed"

\* C14: when the connection of the last online participant of a room
\* disconnects or sends leaveRoom, the room is gone from the registry and no
\* roomUpdate is broadcast; when the leaver's room keeps participants that
\* are online on other connections, it stays and its snapshot is broadcast.
C14_LastOneOut ==
    [][\A c \in Conns : (OnLeaveRoom(c) \/ OnDisconnect(c)) =>
         \A r \in DOMAIN rooms :
            /\ ( /\ Cardinality(Online(rooms[r])) = 1
                 /\ \A i \in Online(rooms[r]) :
                       rooms[r].participants[i].socketId = c ) =>
                  /\ r \notin DOMAIN rooms'
                  /\ \A k \in 1..Len(emitted') : emitted'[k].ev # "roomUpdate"
            /\ ( /\ sess[c].room = r
                 /\ \E i \in Online(rooms[r]) :
                       rooms[r].participants[i].socketId # c ) =>
                  /\ r \in DOMAIN rooms'
                  /\ emitted' = <<RoomUpdate(ToRoom(r), rooms'[r])>>]_vars

\* the members of S that joined no later than every other member of S
\* (of two that joined at the same time, the one that stands first)
Earliest(ps, S) ==
    {i \in S : \A j \in S :
        \/ ps[i].joinTime < ps[j].joinTime
        \/ ps[i].joinTime = ps[j].joinTime /\ i <= j}

\* the hosts of the room after a re-election, when the host was the
\* participant named by hostNames before
ReElected(hostNames, after) ==
    LET ps == after.participants
        stays == {i \in Online(after) : ps[i].name \in hostNames}
    IN  Hosts(after) =
            IF stays # {} THEN stays
            ELSE IF Online(after) # {} THEN Earliest(ps, Online(after))
            ELSE Earliest(ps, 1..Len(ps))

\* C15: after removeParticipant or kickParticipant has taken a participant
\* offline or out of the roster, the host is unchanged if it is still in the
\* roster and online; otherwise the online participant that joined earliest
\* is the only host or, when nobody is online, the earliest-joined of all.
C15_HostReElection ==
    [][\A i \in 1..Len(LobbyConns) : \A r \in Kept :
        LET c == LobbyConns[i]
            before == rooms[r].participants
            hostNames == {before[h].name : h \in Hosts(rooms[r])}
        IN  /\ ( /\ OnLeaveRoom(c) \/ OnDisconnect(c)
                 /\ sess[c].room = r
                 /\ \E k \in 1..Len(before) : before[k].socketId = c ) =>
                    ReElected(hostNames, rooms'[r])
            /\ \A k \in 1..Len(LobbyNames) :
                 ( /\ OnKickUser(c, LobbyNames[k])
                   /\ sess[c].room = r
                   /\ Len(rooms'[r].participants) < Len(before) ) =>
                    ReElected(hostNames, rooms'[r])]_vars

\* C15 witness: the host A has just been taken out of the roster while B and
\* C are offline, and B, the earliest-joined of all, is host
C15_Witness ==
    /\ "R" \in DOMAIN rooms
    /\ RosterNames(rooms["R"].participants) = <<"B", "C">>
    /\ Online(rooms["R"]) = {}
    /\ Hosts(rooms["R"]) = {1}
    /\ Len(emitted) = 2
    /\ emitted[1].ev = "kicked"
    /\ emitted[1].to = ToSocket("c1")

\* every name of the roster of r before the step is in its roster afterwards
RosterKept(r) ==
    \A i \in 1..Len(rooms[r].participants) :
        \E j \in 1..Len(rooms'[r].participants) :
            rooms'[r].participants[j].name = rooms[r].participants[i].name

\* C16: a kickUser from the host while the room is in input or revealed is
\* answered with one error to the caller and changes nothing; hence no step
\* takes an entry out of the roster of a room that is not in lobby.
C16_KickOnlyInLobby ==
    [][/\ \A c \in Conns : \A n \in Names :
            ( /\ Ready(c) /\ HasRoom(c) /\ SessionIsHost(c)
              /\ MyRoom(c).phase # "lobby"
              /\ OnKickUser(c, n) ) => RejectedTo(c)
       /\ \A r \in Kept : rooms[r].phase # "lobby" => RosterKept(r)]_vars

\* C16 witness: the host's kick has just been refused during a round
C16_Witness ==
    /\ Len(emitted) = 1
    /\ emitted[1].ev = "error"
    /\ emitted[1].data.msg = "kickOnlyInLobby"
    /\ \E r \in DOMAIN rooms :
          rooms[r].phase = "input" /\ Len(rooms[r].participants) = 2

\* the room after a reconnection of userName on connection c: only that
\* entry's socketId and online flag are set
Reconnected(room, userName, c) ==
    [room EXCEPT !.participants =
        [i \in 1..Len(@) |->
            IF @[i].name = userName
            THEN [name |-> @[i].name, socketId |-> c, isHost |-> @[i].isHost,
                  online |-> TRUE, joinTime |-> @[i].joinTime]
            ELSE @[i]]]

\* C17: a join under a name already in the roster adds no entry: it sets
\* that entry's socketId and online flag, is reported as a reconnection
\* (the roomUpdate goes to the whole room) and leaves roster order,
\* joinTimes, isHost flags, phase, frozenOrder and submissions as they were;
\* the names of a roster are pairwise different in every reachable state.
C17_Reconnection ==
    /\ [](\A r \in DOMAIN rooms :
            \A i, j \in 1..Len(rooms[r].participants) :
                rooms[r].participants[i].name = rooms[r].participants[j].name
                    => i = j)
    /\ [][\A c \in Conns : \A r \in RoomNames : \A n \in Names :
            (OnJoinRoom(c, r, n) /\ InRoster(r, n)) =>
                /\ r \in DOMAIN rooms'
                /\ rooms'[r] = Reconnected(rooms[r], n, c)
                /\ Len(emitted') = 2
                /\ emitted'[2].ev = "roomUpdate"
                /\ emitted'[2].to = ToRoom(r)]_vars

\* C17 witness: during a round the connection of the host B has just
\* rejoined under the name of the offline participant A
C17_Witness ==
    /\ "R" \in DOMAIN rooms
    /\ rooms["R"].phase = "input"
    /\ Len(rooms["R"].participants) = 2
    /\ rooms["R"].participants[1].socketId = rooms["R"].participants[2].socketId
    /\ rooms["R"].participants[2].isHost
    /\ Len(emitted) = 2
    /\ emitted[1].ev = "joinSuccess"
    /\ emitted[2].to = ToRoom("R")

\* C18: in every room at most one participant holds isHost, and exactly one
\* (online or offline) whenever the roster is not empty.
C18_OneHost ==
    \A r \in DOMAIN rooms :
        /\ Cardinality(Hosts(rooms[r])) <= 1
        /\ Len(rooms[r].participants) > 0 => Cardinality(Hosts(rooms[r])) = 1

\* C18 witness: the host has been kicked out of a room whose other
\* participant is offline; that participant holds isHost
C18_Witness ==
    \E r \in DOMAIN rooms :
        /\ Len(rooms[r].participants) = 1
        /\ Online(rooms[r]) = {}
        /\ Hosts(rooms[r]) = {1}
        /\ Len(emitted) = 2
        /\ emitted[1].ev = "kicked"

\* the names of the hosts of a room
HostNames(room) == {room.participants[i].name : i \in Hosts(room)}

\* the participant that c's session names is online on another connection:
\* it has rejoined from a new connection since c joined under its name
Superseded(c) ==
    /\ HasRoom(c)
    /\ \E i \in Online(MyRoom(c)) :
          /\ MyRoom(c).participants[i].name = sess[c].user
          /\ MyRoom(c).participants[i].socketId # c

\* C19: when the disconnect or leaveRoom of a connection is processed after
\* its participant has rejoined under the same name from a new connection,
\* the participant stays online, the host is who it was and the room stays
\* in the registry.
C19_LateDisconnect ==
    [][\A c \in Conns :
        (Superseded(c) /\ (OnLeaveRoom(c) \/ OnDisconnect(c))) =>
            /\ sess[c].room \in DOMAIN rooms'
            /\ \E i \in Online(rooms'[sess[c].room]) :
                  rooms'[sess[c].room].participants[i].name = sess[c].user
            /\ HostNames(rooms'[sess[c].room]) = HostNames(MyRoom(c))]_vars

\* C20: after a connection has been kicked from a room, none of its
\* startRound, submitNumber, revealResult, forceReveal, backToLobby or
\* kickUser messages changes a room, whatever the other connections have done
\* since, another connection joining under the kicked name included.
C20_KickedIsMute ==
    [][( \/ OnStartRound(KickedConn)
         \/ \E v \in {IntV(0), IntV(1)} : OnSubmitNumber(KickedConn, v)
         \/ OnRevealResult(KickedConn)
         \/ OnForceReveal(KickedConn)
         \/ OnBackToLobby(KickedConn)
         \/ \E n \in Names : OnKickUser(KickedConn, n) ) => rooms' = rooms]_vars

====
